---- MODULE Spec2Model ----
\* Grid-position computation of grafana_gridder: the width allocator
\* (PanelGroup._create_width_units_array), PanelGroup and PanelPositioning.
EXTENDS Integers, Sequences, FiniteSets, TLC

VARIABLES
    arr,          \* the row of relative weights handed to the width allocator
    allocResult,  \* what _create_width_units_array(arr, 24) did
    group,        \* group[g]: the PanelGroup object of slot g, or NoGroup
    gridPos,      \* gridPos[g][k]: gridPos of the k-th panel handed to PanelGroup g
    rowPos,       \* rowPos[g]: gridPos of the RowPanel handed to PanelGroup g
    built,        \* built[g]: origin and rectangles as they were when __init__ returned
    tree,         \* tree[t]: the PanelPositioning object t (panel_groups, y)
    out,          \* the list returned by the last read of a .panels property
    last          \* the last call: operation, target object, exception raised

vars == <<arr, allocResult, group, gridPos, rowPos, built, tree, out, last>>

allocVars == <<arr, allocResult>>
gridVars == <<group, gridPos, rowPos, built, tree, out, last>>

--------------------------------------------------------------------------
\* Program constants

_MAX_WIDTH == 24

SMALL == 1
MEDIUM == 2
LARGE == 3
XLARGE == 4

PanelSize == {SMALL, MEDIUM, LARGE, XLARGE}

\* default of the parameter y of PanelGroup.__init__
DefaultY == 0
\* default of the parameter row_heights of PanelGroup.__init__
DefaultRowHeight == 8

--------------------------------------------------------------------------
\* Bounds of the checked instances

\* rows of every shape up to this length are allocated
MaxRowLen == 3
\* long rows: up to MaxRun SMALL panels followed by up to MaxRun XLARGE panels
MaxRun == 7
\* largest y passed by a caller to a constructor or to set_y
MaxY == 1
\* explicit row heights are 1..MaxHeight
MaxHeight == 2
\* row_heights lists have up to MaxHeights entries
MaxHeights == 3
\* a constructor is handed 0..MaxPanels panels
MaxPanels == 5

--------------------------------------------------------------------------
\* Helpers

Max(a, b) == IF a >= b THEN a ELSE b

RECURSIVE SumSeq(_)
SumSeq(s) == IF s = <<>> THEN 0 ELSE Head(s) + SumSeq(Tail(s))

SeqsUpTo(S, n) == UNION {[1..k -> S] : k \in 0..n}

Repeat(x, n) == [i \in 1..n |-> x]

--------------------------------------------------------------------------
\* Width allocator: PanelGroup._create_width_units_array

\* floor(total_width / total_sum * elem). The float quotient times elem floors
\* to the exact integer quotient for every elem below 47, so for every PanelSize.
FloorShare(total_width, total_sum, elem) == (total_width * elem) \div total_sum

\* result = [max(1, floor(total_width / total_sum * elem)) for elem in arr]
RawWidths(a, total_width) ==
    [i \in 1..Len(a) |-> Max(1, FloorShare(total_width, SumSeq(a), a[i]))]

\* the sort with equal keys in reversed order, as list.sort() followed by reverse()
RECURSIVE SortedIdxUnstable(_, _)
SortedIdxUnstable(result, remaining) ==
    IF remaining = {} THEN <<>>
    ELSE LET first == CHOOSE i \in remaining :
                        \A j \in remaining :
                           \/ result[i] > result[j]
                           \/ result[i] = result[j] /\ i >= j
         IN <<first>> \o SortedIdxUnstable(result, remaining \ {first})

\* sorted(range(len(result)), key=lambda i: result[i], reverse=True):
\* a stable sort, so equal keys keep their original order
RECURSIVE SortedIdx(_, _)
SortedIdx(result, remaining) ==
    IF remaining = {} THEN <<>>
    ELSE LET first == CHOOSE i \in remaining :
                        \A j \in remaining :
                           \/ result[i] > result[j]
                           \/ result[i] = result[j] /\ i <= j
         IN <<first>> \o SortedIdx(result, remaining \ {first})

\* for i in range(delta): result[idx[i]] += 1   (idx[i] raises past the end)
RECURSIVE AddUnits(_, _, _, _)
AddUnits(result, idx, i, delta) ==
    IF i > delta THEN [err |-> "none", widths |-> result]
    ELSE IF i > Len(idx) THEN [err |-> "IndexError", widths |-> result]
    ELSE AddUnits([result EXCEPT ![idx[i]] = @ + 1], idx, i + 1, delta)

CreateWidthUnitsArray(a, total_width) ==
    LET result == RawWidths(a, total_width)
        delta == total_width - SumSeq(result)
    IN IF delta > 0
       THEN AddUnits(result, SortedIdx(result, 1..Len(result)), 1, delta)
       ELSE [err |-> "none", widths |-> result]

--------------------------------------------------------------------------
\* Rows allocated in AllocSpec

RunRows == {Repeat(SMALL, k) \o Repeat(XLARGE, m) : k \in 0..MaxRun, m \in 0..MaxRun}

RowInputs == SeqsUpTo(PanelSize, MaxRowLen) \cup RunRows

NotAllocated == [err |-> "pending", widths |-> <<>>]

--------------------------------------------------------------------------
\* PanelGroup

\* GridPos(x, y, w, h); NoPos is a panel whose gridPos was never written
GridPos(x, y, w, h) == [x |-> x, y |-> y, w |-> w, h |-> h]
NoPos == [x |-> 0, y |-> 0, w |-> 0, h |-> 0]

\* the layout argument: None, a flat list of sizes, or a list of rows.
\* The empty list [] is FlatLayout(<<>>).
LayoutNone == [isNone |-> TRUE, isNested |-> FALSE, flat |-> <<>>, rows |-> <<>>]
FlatLayout(sizes) == [isNone |-> FALSE, isNested |-> FALSE, flat |-> sizes, rows |-> <<>>]
RowsLayout(rows) == [isNone |-> FALSE, isNested |-> TRUE, flat |-> <<>>, rows |-> rows]

LayoutLen(layout) == IF layout.isNested THEN Len(layout.rows) ELSE Len(layout.flat)

\* the row_heights argument: an int or a list of ints
HeightInt(h) == [isList |-> FALSE, h |-> h, hs |-> <<>>]
HeightList(hs) == [isList |-> TRUE, h |-> 0, hs |-> hs]

NoGroup ==
    [exists |-> FALSE, _layout |-> <<>>, row_heights |-> <<>>, row |-> FALSE,
     _y |-> 0, height |-> 0, npanels |-> 0]

\* self._layout = layout if isinstance(layout[0], list)
\*                else [layout] * (len(panels) // len(layout))
NormalizeLayout(layout, npanels) ==
    IF layout.isNested THEN layout.rows
    ELSE Repeat(layout.flat, npanels \div Len(layout.flat))

\* sum(len(row) for row in self._layout)
RECURSIVE SlotCount(_)
SlotCount(rows) == IF rows = <<>> THEN 0 ELSE Len(Head(rows)) + SlotCount(Tail(rows))

\* the height without the two units of the row header
HeightOfNoHeader(row_heights, row) == SumSeq(row_heights) + Len(row_heights)

\* self.height = sum(self.row_heights) + len(self.row_heights) + (2 if self.row is not None else 0)
HeightOf(row_heights, row) ==
    SumSeq(row_heights) + Len(row_heights) + (IF row THEN 2 ELSE 0)

\* the inner loop of _compute_grid_pos: one row's panels, left to right
RECURSIVE PlaceRow(_, _, _, _, _, _, _)
PlaceRow(pos, units, k, panel_index, current_x, current_y, h) ==
    IF k > Len(units) THEN pos
    ELSE PlaceRow([pos EXCEPT ![panel_index] = GridPos(current_x, current_y, units[k], h)],
                  units, k + 1, panel_index + 1, current_x + units[k], current_y, h)

\* the advance without the unit of spacing between rows
NextRowYNoGap(current_y, h) == current_y + h

\* current_y += self.row_heights[row_index] + 1
NextRowY(current_y, h) == current_y + h + 1

\* the outer loop of _compute_grid_pos; an exception of the allocator leaves
\* the rows before it written
RECURSIVE PlaceRows(_, _, _, _, _, _)
PlaceRows(pos, layout, row_heights, row_index, panel_index, current_y) ==
    IF row_index > Len(layout) THEN [err |-> "none", gridPos |-> pos]
    ELSE LET alloc == CreateWidthUnitsArray(layout[row_index], _MAX_WIDTH)
         IN IF alloc.err # "none" THEN [err |-> alloc.err, gridPos |-> pos]
            ELSE PlaceRows(PlaceRow(pos, alloc.widths, 1, panel_index, 0, current_y,
                                    row_heights[row_index]),
                           layout, row_heights, row_index + 1,
                           panel_index + Len(alloc.widths),
                           NextRowY(current_y, row_heights[row_index]))

\* the row header of _compute_grid_pos
HeaderPos(y) == GridPos(0, y, _MAX_WIDTH, 1)

\* the offset of the first row below the origin
HeaderSkip(row) == IF row THEN 2 ELSE 0

ComputeGridPos(self, npanels) ==
    LET placed == PlaceRows(Repeat(NoPos, npanels), self._layout, self.row_heights, 1, 1,
                            self._y + HeaderSkip(self.row))
    IN [err |-> placed.err,
        gridPos |-> placed.gridPos,
        rowPos |-> IF self.row THEN HeaderPos(self._y) ELSE NoPos]

\* the origin PanelGroup.__init__ stores
InitOrigin(y) == y

\* PanelGroup.__init__(layout, panels, y, row_heights, row) for npanels fresh panels:
\* the exception raised, the object (NoGroup when it raised) and the panels' gridPos
PanelGroupInit(layout, npanels, y, row_heights, row) ==
    LET failed(e) == [err |-> e, obj |-> NoGroup,
                      gridPos |-> Repeat(NoPos, npanels), rowPos |-> NoPos]
    IN IF layout.isNone THEN failed("AssertionError")
       ELSE IF LayoutLen(layout) = 0 THEN failed("IndexError")
       ELSE LET _layout == NormalizeLayout(layout, npanels)
            IN IF SlotCount(_layout) # npanels THEN failed("AssertionError")
               ELSE IF row_heights.isList /\ Len(row_heights.hs) # Len(_layout)
                    THEN failed("AssertionError")
               ELSE LET self == [exists |-> TRUE,
                                 _layout |-> _layout,
                                 row_heights |-> IF row_heights.isList THEN row_heights.hs
                                                 ELSE Repeat(row_heights.h, Len(_layout)),
                                 row |-> row,
                                 _y |-> InitOrigin(y),
                                 height |-> 0,
                                 npanels |-> npanels]
                        obj == [self EXCEPT !.height = HeightOf(self.row_heights, row)]
                        placed == ComputeGridPos(obj, npanels)
                    IN [err |-> placed.err,
                        obj |-> IF placed.err = "none" THEN obj ELSE NoGroup,
                        gridPos |-> placed.gridPos,
                        rowPos |-> placed.rowPos]

\* the translation written as an assignment: gridPos.y = delta
ShiftYAssign(pos, delta) == [pos EXCEPT !.y = delta]

\* the translation of one rectangle: gridPos.y += delta
ShiftY(pos, delta) == [pos EXCEPT !.y = @ + delta]

\* the origin PanelGroup.set_y stores
StoredOrigin(old_y, y) == y

\* set_y without its assertion
PanelGroupSetYUnchecked(S, g, y) ==
    LET self == S.group[g]
        delta == y - self._y
    IN [err |-> "none",
        S |-> [S EXCEPT
                 !.rowPos[g] = IF self.row THEN ShiftY(@, delta) ELSE @,
                 !.gridPos[g] = [k \in 1..Len(@) |-> ShiftY(@[k], delta)],
                 !.group[g]._y = StoredOrigin(self._y, y)]]

\* PanelGroup.set_y(y) on the group of slot g, in store S
PanelGroupSetY(S, g, y) ==
    IF ~(y >= 0) THEN [err |-> "AssertionError", S |-> S]
    ELSE LET self == S.group[g]
             delta == y - self._y
         IN [err |-> "none",
             S |-> [S EXCEPT
                      !.rowPos[g] = IF self.row THEN ShiftY(@, delta) ELSE @,
                      !.gridPos[g] = [k \in 1..Len(@) |-> ShiftY(@[k], delta)],
                      !.group[g]._y = StoredOrigin(self._y, y)]]

\* PanelGroup.get_height
PanelGroupGetHeight(self) == self.height

--------------------------------------------------------------------------
\* PanelPositioning

\* the objects of a run: the g-th PanelGroup(...) call makes object g; two
\* PanelPositioning objects, created in the order 1, 2
GroupIds == {1, 2}
TreeIds == {1, 2}

\* an element of panel_groups: a PanelGroup or a PanelPositioning
GroupRef(g) == [isTree |-> FALSE, id |-> g]
TreeRef(t) == [isTree |-> TRUE, id |-> t]

\* a panel of the returned list: the k-th panel of group g, or (k = 0) its row header
PanelRef(g, k) == [g |-> g, k |-> k]

\* the objects the operations act on
Store == [group |-> group, gridPos |-> gridPos, rowPos |-> rowPos, tree |-> tree]

\* PanelPositioning.__init__: self.panel_groups = panel_groups or []; self.y = 0
PanelPositioningInit == [panel_groups |-> <<>>, y |-> 0]

\* PanelPositioning.add_panel_group
AddPanelGroupOp(S, t, child) ==
    [S EXCEPT !.tree[t].panel_groups = Append(@, child)]

\* set_y that checks y and forgets to store it
PanelPositioningSetYDropped(S, t, y) ==
    IF ~(y >= 0) THEN [err |-> "AssertionError", S |-> S]
    ELSE [err |-> "none", S |-> S]

\* PanelPositioning.set_y(y) on object t, in store S
PanelPositioningSetY(S, t, y) ==
    IF ~(y >= 0) THEN [err |-> "AssertionError", S |-> S]
    ELSE [err |-> "none", S |-> [S EXCEPT !.tree[t].y = y]]

\* group.set_y(current_y) for an element of panel_groups
ChildSetY(S, child, y) ==
    IF child.isTree THEN PanelPositioningSetY(S, child.id, y)
    ELSE PanelGroupSetY(S, child.id, y)

\* PanelPositioning.get_height: the sum of the children's get_height()
RECURSIVE ChildGetHeight(_, _)
RECURSIVE SumHeights(_, _)
SumHeights(S, kids) ==
    IF kids = <<>> THEN 0
    ELSE ChildGetHeight(S, Head(kids)) + SumHeights(S, Tail(kids))

ChildGetHeight(S, child) ==
    IF child.isTree THEN SumHeights(S, S.tree[child.id].panel_groups)
    ELSE PanelGroupGetHeight(S.group[child.id])

PanelPositioningGetHeight(S, t) == ChildGetHeight(S, TreeRef(t))

\* the advance with a unit of spacing between children
NextCursorSpaced(current_y, h) == current_y + h + 1

\* the advance of the cursor in the first loop of the panels property
NextCursor(current_y, h) == current_y + h

\* first loop of the panels property: set_y on each child at the running cursor
RECURSIVE StackChildren(_, _, _, _)
StackChildren(S, kids, i, current_y) ==
    IF i > Len(kids) THEN [err |-> "none", S |-> S]
    ELSE LET r == ChildSetY(S, kids[i], current_y)
         IN IF r.err # "none" THEN r
            ELSE StackChildren(r.S, kids, i + 1,
                               NextCursor(current_y, ChildGetHeight(r.S, kids[i])))

\* the panels of a PanelGroup, in order
GroupPanels(S, g) == [k \in 1..S.group[g].npanels |-> PanelRef(g, k)]

\* hasattr(group, 'row') and group.row is not None: the row header comes first
RowFirst(S, child) ==
    IF ~child.isTree /\ S.group[child.id].row THEN <<PanelRef(child.id, 0)>> ELSE <<>>

\* the panels property of PanelPositioning t: both loops; the second reads
\* group.panels, which for a nested PanelPositioning is this property again
RECURSIVE Panels(_, _)
RECURSIVE CollectPanels(_, _, _, _)
CollectPanels(S, kids, i, panels) ==
    IF i > Len(kids) THEN [err |-> "none", S |-> S, panels |-> panels]
    ELSE IF kids[i].isTree
         THEN LET r == Panels(S, kids[i].id)
              IN IF r.err # "none" THEN r
                 ELSE CollectPanels(r.S, kids, i + 1, panels \o r.panels)
         ELSE CollectPanels(S, kids, i + 1,
                            panels \o RowFirst(S, kids[i]) \o GroupPanels(S, kids[i].id))

Panels(S, t) ==
    LET kids == S.tree[t].panel_groups
        stacked == StackChildren(S, kids, 1, S.tree[t].y)
    IN IF stacked.err # "none" THEN [err |-> stacked.err, S |-> stacked.S, panels |-> <<>>]
       ELSE CollectPanels(stacked.S, kids, 1, <<>>)

--------------------------------------------------------------------------
\* Calls

\* the arguments of a call; the fields a call does not take keep these values
NoArgs ==
    [layout |-> LayoutNone, npanels |-> 0, y |-> 0, row_heights |-> HeightInt(0),
     row |-> FALSE, child |-> GroupRef(0)]

Call(op, target, args, err) == [op |-> op, target |-> target, args |-> args, err |-> err]

\* what built[g] holds while slot g has no object
NotBuilt == [y |-> 0, gridPos |-> <<>>, rowPos |-> NoPos]

\* slot g has seen no constructor call yet, and the slots before it have
Unused(g) ==
    /\ ~group[g].exists
    /\ gridPos[g] = <<>>
    /\ ~(last.op = "PanelGroup" /\ last.target = g)

\* g = PanelGroup(layout, npanels fresh panels, y, row_heights, row)
Construct(g, layout, npanels, y, row_heights, row) ==
    /\ Unused(g)
    /\ \A h \in GroupIds : h < g => ~Unused(h)
    /\ LET r == PanelGroupInit(layout, npanels, y, row_heights, row)
       IN /\ group' = [group EXCEPT ![g] = r.obj]
          /\ gridPos' = [gridPos EXCEPT ![g] = r.gridPos]
          /\ rowPos' = [rowPos EXCEPT ![g] = r.rowPos]
          /\ built' = [built EXCEPT ![g] =
                          IF r.err = "none"
                          THEN [y |-> r.obj._y, gridPos |-> r.gridPos, rowPos |-> r.rowPos]
                          ELSE NotBuilt]
          /\ last' = Call("PanelGroup", g,
                          [NoArgs EXCEPT !.layout = layout, !.npanels = npanels, !.y = y,
                                         !.row_heights = row_heights, !.row = row],
                          r.err)
    /\ out' = <<>>
    /\ UNCHANGED <<tree, allocVars>>

\* group g .set_y(y)
GroupSetY(g, y) ==
    /\ group[g].exists
    /\ LET r == PanelGroupSetY(Store, g, y)
       IN /\ group' = r.S.group
          /\ gridPos' = r.S.gridPos
          /\ rowPos' = r.S.rowPos
          /\ tree' = r.S.tree
          /\ last' = Call("PanelGroup.set_y", g, [NoArgs EXCEPT !.y = y], r.err)
    /\ out' = <<>>
    /\ UNCHANGED <<built, allocVars>>

\* whether child is an element of some panel_groups list
HasParent(child) ==
    \E t \in TreeIds : \E i \in 1..Len(tree[t].panel_groups) : tree[t].panel_groups[i] = child

\* positioning t .add_panel_group(child). The objects form a tree: a child is
\* added to one parent only, and a PanelPositioning only to one created before it.
AddPanelGroup(t, child) ==
    /\ ~HasParent(child)
    /\ IF child.isTree THEN child.id > t ELSE group[child.id].exists
    /\ tree' = AddPanelGroupOp(Store, t, child).tree
    /\ last' = Call("add_panel_group", t, [NoArgs EXCEPT !.child = child], "none")
    /\ out' = <<>>
    /\ UNCHANGED <<group, gridPos, rowPos, built, allocVars>>

\* positioning t .set_y(y)
TreeSetY(t, y) ==
    /\ LET r == PanelPositioningSetY(Store, t, y)
       IN /\ tree' = r.S.tree
          /\ last' = Call("PanelPositioning.set_y", t, [NoArgs EXCEPT !.y = y], r.err)
    /\ out' = <<>>
    /\ UNCHANGED <<group, gridPos, rowPos, built, allocVars>>

\* a read of positioning t .panels
ReadPanels(t) ==
    /\ LET r == Panels(Store, t)
       IN /\ group' = r.S.group
          /\ gridPos' = r.S.gridPos
          /\ rowPos' = r.S.rowPos
          /\ tree' = r.S.tree
          /\ out' = r.panels
          /\ last' = Call("panels", t, NoArgs, r.err)
    /\ UNCHANGED <<built, allocVars>>

\* _create_width_units_array(arr, _MAX_WIDTH)
Allocate ==
    /\ allocResult = NotAllocated
    /\ allocResult' = CreateWidthUnitsArray(arr, _MAX_WIDTH)
    /\ UNCHANGED <<arr, gridVars>>

--------------------------------------------------------------------------
\* Arguments the callers pass

YArgs == -1..MaxY

\* row_heights omitted (the default), an int, or a list
HeightArgs ==
    {HeightInt(DefaultRowHeight)}
      \cup {HeightInt(h) : h \in 1..MaxHeight}
      \cup {HeightList(hs) : hs \in SeqsUpTo(1..MaxHeight, MaxHeights)}

LayoutArgs ==
    {LayoutNone,
     FlatLayout(<<>>),
     FlatLayout(<<SMALL>>),
     FlatLayout(<<SMALL, MEDIUM>>),
     FlatLayout(<<SMALL, MEDIUM, MEDIUM>>),
     RowsLayout(<<<<XLARGE>>>>),
     RowsLayout(<<<<>>>>),
     RowsLayout(<<<<LARGE, MEDIUM>>, <<SMALL, SMALL>>>>),
     RowsLayout(<<<<SMALL>>, <<>>>>),
     RowsLayout(<<<<MEDIUM, SMALL, XLARGE>>, <<LARGE>>>>),
     RowsLayout(<<<<SMALL, LARGE>>, <<MEDIUM>>, <<XLARGE, SMALL>>>>)}

\* the group stacked in Spec: two rows, three panels, with or without a header
StackLayout == RowsLayout(<<<<SMALL, MEDIUM>>, <<LARGE>>>>)

ChildRefs == {GroupRef(g) : g \in GroupIds} \cup {TreeRef(t) : t \in TreeIds}

InitGrid ==
    /\ group = [g \in GroupIds |-> NoGroup]
    /\ gridPos = [g \in GroupIds |-> <<>>]
    /\ rowPos = [g \in GroupIds |-> NoPos]
    /\ built = [g \in GroupIds |-> NotBuilt]
    /\ tree = [t \in TreeIds |-> PanelPositioningInit]
    /\ out = <<>>
    /\ last = Call("init", 0, NoArgs, "none")

--------------------------------------------------------------------------
\* Spec: panel groups stacked by positioning objects

Init ==
    /\ InitGrid
    /\ arr = <<>>
    /\ allocResult = NotAllocated

Next ==
    \/ \E g \in GroupIds, row \in BOOLEAN :
          Construct(g, StackLayout, 3, DefaultY, HeightInt(DefaultRowHeight), row)
    \/ \E g \in GroupIds, y \in YArgs : GroupSetY(g, y)
    \/ \E t \in TreeIds, child \in ChildRefs : AddPanelGroup(t, child)
    \/ \E t \in TreeIds, y \in YArgs : TreeSetY(t, y)
    \/ \E t \in TreeIds : ReadPanels(t)

Spec == Init /\ [][Next]_vars

\* GroupSpec: one panel group, constructed from every argument and moved

GroupConstruct ==
    /\ Unused(1)
    /\ \E layout \in LayoutArgs, npanels \in 0..MaxPanels, y \in YArgs \cup {DefaultY},
          row_heights \in HeightArgs, row \in BOOLEAN :
          Construct(1, layout, npanels, y, row_heights, row)

GroupMove == \E y \in YArgs : GroupSetY(1, y)

GroupNext == GroupConstruct \/ GroupMove

GroupSpec == Init /\ [][GroupNext]_vars

\* AllocSpec: the width allocator applied to every row of RowInputs

AllocInit ==
    /\ InitGrid
    /\ arr \in RowInputs
    /\ allocResult = NotAllocated

AllocNext == Allocate

AllocSpec == AllocInit /\ [][AllocNext]_vars

--------------------------------------------------------------------------
\* Claims about the width allocator (AllocSpec)

Allocated == allocResult # NotAllocated

\* raw_i = max(1, floor(24 * w_i / sum(w)))
RawOf(w, i) == Max(1, (_MAX_WIDTH * w[i]) \div SumSeq(w))
RawSum(w) == SumSeq([i \in 1..Len(w) |-> RawOf(w, i)])
Shortfall(w) == _MAX_WIDTH - RawSum(w)

\* the number of panels before panel i in the order of descending raw width,
\* earliest position first among equals
RankOf(w, i) ==
    Cardinality({j \in 1..Len(w) :
                   \/ RawOf(w, j) > RawOf(w, i)
                   \/ RawOf(w, j) = RawOf(w, i) /\ j < i})

\* C1: for every non-empty row of PanelSize weights the allocator returns widths
\* that sum to exactly 24, each at least 1, and the shortfall is never negative.
C1_WidthsFillGrid ==
    (Allocated /\ Len(arr) >= 1) =>
        /\ allocResult.err = "none"
        /\ Len(allocResult.widths) = Len(arr)
        /\ SumSeq(allocResult.widths) = _MAX_WIDTH
        /\ \A i \in 1..Len(arr) : allocResult.widths[i] >= 1
        /\ Shortfall(arr) >= 0

\* C9: the result is raw plus one unit for each of the first D panels in the
\* order of descending raw width, earliest position first among equals, where
\* D is the shortfall; [1,2] gives [8,16], [1,1,1] gives [8,8,8] and in [1,2,2]
\* the two larger panels receive the remainder.
C9_RemainderRule ==
    (Allocated /\ Len(arr) >= 1) =>
        /\ allocResult.err = "none"
        /\ allocResult.widths =
              [i \in 1..Len(arr) |->
                  RawOf(arr, i) + (IF RankOf(arr, i) < Shortfall(arr) THEN 1 ELSE 0)]
        /\ (arr = <<1, 2>> => allocResult.widths = <<8, 16>>)
        /\ (arr = <<1, 1, 1>> => allocResult.widths = <<8, 8, 8>>)
        /\ (arr = <<1, 2, 2>> => allocResult.widths = <<4, 10, 10>>)

\* a row of equal weights whose remainder goes to the leftmost panels
C9_Witness ==
    /\ Allocated
    /\ arr = <<SMALL, SMALL, SMALL, SMALL, SMALL>>
    /\ allocResult.widths = <<5, 5, 5, 5, 4>>

--------------------------------------------------------------------------
\* Claims about one panel group (GroupSpec)

\* a rectangle moved down by d, nothing else changed
Moved(pos, d) == [x |-> pos.x, y |-> pos.y + d, w |-> pos.w, h |-> pos.h]
MovedAll(ps, d) == [k \in 1..Len(ps) |-> Moved(ps[k], d)]

Constructed(g) == last.op = "PanelGroup" /\ last.target = g

\* C4: set_y(Y) with Y >= 0 moves the y of every panel and of the row header by
\* Y - previous origin, leaves x, width and height alone and stores Y; so every
\* rectangle is the one of construction moved by (origin - construction origin).
C4_SetYTranslates ==
    /\ [][\A g \in GroupIds :
            (last'.op = "PanelGroup.set_y" /\ last'.target = g /\ last'.args.y >= 0) =>
               /\ last'.err = "none"
               /\ group'[g]._y = last'.args.y
               /\ gridPos'[g] = MovedAll(gridPos[g], last'.args.y - group[g]._y)
               /\ rowPos'[g] = IF group[g].row
                               THEN Moved(rowPos[g], last'.args.y - group[g]._y)
                               ELSE rowPos[g]]_vars
    /\ [](\A g \in GroupIds :
            group[g].exists =>
               /\ gridPos[g] = MovedAll(built[g].gridPos, group[g]._y - built[g].y)
               /\ rowPos[g] = IF group[g].row
                              THEN Moved(built[g].rowPos, group[g]._y - built[g].y)
                              ELSE built[g].rowPos)

\* a three-row group with a header, moved away from the origin it was built at
C4_Witness ==
    /\ last.op = "PanelGroup.set_y" /\ last.target = 1 /\ last.err = "none"
    /\ group[1].row
    /\ Len(group[1]._layout) = 3
    /\ group[1].npanels = 5
    /\ built[1].y = 0
    /\ group[1]._y = MaxY
    /\ gridPos[1][5].y = built[1].gridPos[5].y + MaxY

\* the same group without, or with, its row header
Twin(g) ==
    PanelGroupInit(RowsLayout(group[g]._layout), group[g].npanels, built[g].y,
                   HeightList(group[g].row_heights), ~group[g].row).obj

\* C5: get_height() is sum(row_heights) + row count, plus 2 exactly when a row
\* header is present; the header is {x:0, y:origin, width:24, height:1} at
\* construction and keeps x = 0, width = 24, height = 1 after any set_y.
C5_HeightAndHeader ==
    \A g \in GroupIds :
       group[g].exists =>
          /\ PanelGroupGetHeight(group[g]) =
                SumSeq(group[g].row_heights) + Len(group[g]._layout)
                   + (IF group[g].row THEN 2 ELSE 0)
          /\ Len(group[g]._layout) >= 1 =>
                /\ Twin(g).exists
                /\ PanelGroupGetHeight(group[g]) - PanelGroupGetHeight(Twin(g)) =
                      (IF group[g].row THEN 2 ELSE -2)
          /\ group[g].row =>
                /\ built[g].rowPos = [x |-> 0, y |-> built[g].y, w |-> 24, h |-> 1]
                /\ rowPos[g] = [x |-> 0, y |-> group[g]._y, w |-> 24, h |-> 1]

\* a two-row group with a header and explicit row heights, after a set_y
C5_Witness ==
    /\ last.op = "PanelGroup.set_y" /\ last.err = "none"
    /\ group[1].row
    /\ group[1].row_heights = <<1, 2>>
    /\ group[1]._y # built[1].y
    /\ PanelGroupGetHeight(group[1]) = 7

\* the layout argument normalized: its row count and its panel slots
ClaimRowCount(layout, npanels) ==
    IF layout.isNested THEN Len(layout.rows) ELSE npanels \div Len(layout.flat)
ClaimSlots(layout, npanels) ==
    IF layout.isNested THEN SlotCount(layout.rows)
    ELSE Len(layout.flat) * (npanels \div Len(layout.flat))

\* the cases in which construction is to fail
MustFail(a) ==
    \/ a.layout.isNone
    \/ LayoutLen(a.layout) = 0
    \/ ClaimSlots(a.layout, a.npanels) # a.npanels
    \/ a.row_heights.isList /\ Len(a.row_heights.hs) # ClaimRowCount(a.layout, a.npanels)

\* C7: construction fails, before any panel's rectangle is written, when the
\* layout's panel slots differ from the panel count, when a row_heights list
\* disagrees with the row count, or when the layout is missing or empty;
\* otherwise it completes with every panel positioned.
C7_ConstructValidates ==
    \A g \in GroupIds :
       Constructed(g) =>
          IF MustFail(last.args)
          THEN /\ last.err # "none"
               /\ ~group[g].exists
               /\ \A k \in 1..Len(gridPos[g]) : gridPos[g][k] = NoPos
          ELSE /\ last.err = "none"
               /\ group[g].exists
               /\ Len(gridPos[g]) = last.args.npanels
               /\ \A k \in 1..Len(gridPos[g]) : gridPos[g][k] # NoPos

\* C8: a group constructed with a negative or missing origin is at origin 0:
\* its header, or else its first row, is at y = 0.
C8_NegativeOriginIsZero ==
    \A g \in GroupIds :
       (Constructed(g) /\ last.err = "none" /\ last.args.y <= DefaultY) =>
          /\ group[g]._y = 0
          /\ group[g].row => rowPos[g].y = 0
          /\ (~group[g].row /\ group[g].npanels >= 1) => gridPos[g][1].y = 0

\* the number of panels in the rows before row r
SlotsBefore(layout, r) == SlotCount(SubSeq(layout, 1, r - 1))

\* C10: panels are consumed row-major; row r is at y = origin + (2 with a row
\* header) + the sum over the rows j before it of (row_height_j + 1); the k-th
\* panel of a row is at x = the sum of the widths allocated before it, with its
\* allocated width and the row's height. [[3,2],[1,1]] with row height 8 puts
\* row 0 at y = 0 and row 1 at y = 9 with widths 12 and 12.
C10_RowMajorPositions ==
    \A g \in GroupIds :
       group[g].exists =>
          LET L == group[g]._layout
              H == group[g].row_heights
              first == built[g].y + (IF group[g].row THEN 2 ELSE 0)
          IN /\ Len(built[g].gridPos) = SlotCount(L)
             /\ \A r \in 1..Len(L) : \A k \in 1..Len(L[r]) :
                   LET W == CreateWidthUnitsArray(L[r], _MAX_WIDTH).widths
                   IN built[g].gridPos[SlotsBefore(L, r) + k] =
                         [x |-> SumSeq(SubSeq(W, 1, k - 1)),
                          y |-> first + SumSeq([j \in 1..(r - 1) |-> H[j] + 1]),
                          w |-> W[k],
                          h |-> H[r]]
             /\ (L = <<<<3, 2>>, <<1, 1>>>> /\ H = <<8, 8>> /\ ~group[g].row
                   /\ built[g].y = 0) =>
                   built[g].gridPos = <<[x |-> 0, y |-> 0, w |-> 15, h |-> 8],
                                        [x |-> 15, y |-> 0, w |-> 9, h |-> 8],
                                        [x |-> 0, y |-> 9, w |-> 12, h |-> 8],
                                        [x |-> 12, y |-> 9, w |-> 12, h |-> 8]>>

\* the three-row group with a header, just constructed at a positive origin
C10_Witness ==
    /\ Constructed(1) /\ last.err = "none"
    /\ group[1]._layout = <<<<SMALL, LARGE>>, <<MEDIUM>>, <<XLARGE, SMALL>>>>
    /\ group[1].row_heights = <<2, 1, 2>>
    /\ group[1].row
    /\ built[1].y = 1
    /\ built[1].gridPos[5] = [x |-> 20, y |-> 8, w |-> 4, h |-> 2]

--------------------------------------------------------------------------
\* Claims about stacked groups (Spec)

\* group g sits at origin o: its rectangles are those of construction moved there
GroupAt(g, o) ==
    /\ group[g]._y = o
    /\ gridPos[g] = MovedAll(built[g].gridPos, o - built[g].y)
    /\ rowPos[g] = IF group[g].row THEN Moved(built[g].rowPos, o - built[g].y)
                   ELSE built[g].rowPos

\* the children of t are stacked from t's origin without gaps, nested ones too
RECURSIVE StackedFrom(_)
StackedFrom(t) ==
    LET kids == tree[t].panel_groups
    IN \A i \in 1..Len(kids) :
          LET o == tree[t].y + SumHeights(Store, SubSeq(kids, 1, i - 1))
          IN IF kids[i].isTree
             THEN tree[kids[i].id].y = o /\ StackedFrom(kids[i].id)
             ELSE GroupAt(kids[i].id, o)

\* C2: every read of the panels of a positioning object leaves its children
\* stacked with no gaps: child i's origin is the object's current origin plus
\* the heights of the children before it, and the child's panels and header
\* (recursively for nested objects) are positioned relative to that origin.
C2_ReadLeavesStacked ==
    \A t \in TreeIds :
       (last.op = "panels" /\ last.target = t) =>
          /\ last.err = "none"
          /\ StackedFrom(t)

\* a read of a tree moved to MaxY, holding a group and then a nested tree
C2_Witness ==
    /\ last.op = "panels" /\ last.target = 1 /\ last.err = "none"
    /\ tree[1].y = MaxY
    /\ tree[1].panel_groups = <<GroupRef(1), TreeRef(2)>>
    /\ tree[2].panel_groups = <<GroupRef(2)>>
    /\ group[2].row
    /\ group[2]._y = MaxY + PanelGroupGetHeight(group[1])
    /\ Len(out) = 7

\* the children of t with the nested object at position i replaced by its children
Inlined(t, i) ==
    LET kids == tree[t].panel_groups
    IN SubSeq(kids, 1, i - 1) \o tree[kids[i].id].panel_groups
          \o SubSeq(kids, i + 1, Len(kids))

\* C3: reading the panels of a tree that nests another tree gives the same
\* ordered panels and row headers, with the same rectangles, as reading the
\* tree with the nested tree's children inlined in its place.
C3_NestingInlines ==
    \A t \in TreeIds : \A i \in 1..Len(tree[t].panel_groups) :
       tree[t].panel_groups[i].isTree =>
          LET nested == Panels(Store, t)
              flat == Panels([Store EXCEPT !.tree[t].panel_groups = Inlined(t, i)], t)
          IN /\ nested.err = flat.err
             /\ nested.panels = flat.panels
             /\ nested.S.gridPos = flat.S.gridPos
             /\ nested.S.rowPos = flat.S.rowPos
             /\ nested.S.group = flat.S.group

\* a read of [group 1, Tree(group 2)] at a positive origin
C3_Witness ==
    /\ last.op = "panels" /\ last.target = 1 /\ last.err = "none"
    /\ tree[1].y = 1
    /\ tree[1].panel_groups = <<GroupRef(1), TreeRef(2)>>
    /\ tree[2].panel_groups = <<GroupRef(2)>>
    /\ group[1].row /\ group[2].row
    /\ out = <<PanelRef(1, 0), PanelRef(1, 1), PanelRef(1, 2), PanelRef(1, 3),
               PanelRef(2, 0), PanelRef(2, 1), PanelRef(2, 2), PanelRef(2, 3)>>

\* C6: set_y(new_y) with new_y < 0 fails on a panel group and on a positioning
\* object, and the failed call changes no origin and no rectangle.
C6_NegativeSetYFails ==
    [][(last'.op \in {"PanelGroup.set_y", "PanelPositioning.set_y"} /\ last'.args.y < 0) =>
          /\ last'.err = "AssertionError"
          /\ UNCHANGED <<group, gridPos, rowPos, built, tree>>]_vars

\* a failed set_y(-1) on a group that a read had stacked below another child
C6_Witness ==
    /\ last.op = "PanelGroup.set_y" /\ last.args.y = -1 /\ last.err = "AssertionError"
    /\ group[last.target].exists
    /\ group[last.target]._y > MaxY
    /\ HasParent(GroupRef(last.target))

====
